---- MODULE Spec2Model ----
(***************************************************************************)
(* Quasistatic relaxation engine of tyssue:                                *)
(*   - QSSolver (tyssue/solvers/quasistatic.py): the restart loop around   *)
(*     the numerical optimizer and the composed position update;           *)
(*   - solve_collisions / CollidingBoxes (tyssue/collisions/solvers.py):   *)
(*     the collision wrapper and the bound-and-clamp resolver.             *)
(* Spec     : the solver driven by an arbitrary optimizer.                 *)
(* CollSpec : the collision-wrapped position update on a concrete sheet.   *)
(***************************************************************************)
EXTENDS Integers, Sequences, FiniteSets, TLC

\* ------------------------------------------------------------- bounds
MaxX == 2          \* x coordinates a position update writes are 0..MaxX
MaxY == 1          \* y coordinates a position update writes are 0..MaxY
MaxShy == 1        \* the shyness setting is 0..MaxShy
MaxPairs == 2      \* edge pairs the intersection detector reports, at most
MaxVerts == 3      \* vertex ids of the solver's mesh are 1..MaxVerts
MaxVal == 1        \* solver coordinates are 0..MaxVal
MaxEvals == 2      \* evaluations the optimizer makes in one run, at most
MaxTopo == 2       \* topology changes in one find_energy_min call, at most

\* len(eptm.coords) in the solver's mesh
NDims == 2

VARIABLES
    args,      \* the arguments QSSolver was built with
    self,      \* the QSSolver object: [set_pos, restart, rearange]
    eptm,      \* the solver's mesh: [verts, active, pos]
    pc,        \* "idle" | "optimizing" | "returned" | "failed"
    pos0,      \* start vector of the current optimizer run
    run,       \* optimizer runs started by this find_energy_min call
    nEval,     \* evaluations made by the current run
    ntopo,     \* topology changes made so far
    res,       \* what find_energy_min returned
    err,       \* the error find_energy_min ended with
    changed,   \* a topology operator changed the active set during this run
    last,      \* what the last step did
    written,   \* the trial vector of the most recent position update
    sheet,     \* the sheet of the collision wrapper: vertex -> coordinate -> rational
    shyness,   \* sheet.settings["shyness"]
    cpc,       \* "ready" | "done" | "again" | "built" | "plane" | "folding"
    call,      \* what the last collision-wrapped position update did
    again      \* what a second solve_collisions call on the same boxes did

svars == <<args, self, eptm, pc, pos0, run, nEval, ntopo, res, err, changed, last, written>>
cvars == <<sheet, shyness, cpc, call, again>>
vars == <<svars, cvars>>

Vals == 0..MaxVal
Ids == 1..MaxVerts

NoExc == "none"
TopologyChangeError == "TopologyChangeError"
\* class TopologyChangeError(ValueError): what an except clause for `cls` catches
IsInstance(exc, cls) ==
    \/ exc = cls
    \/ exc = TopologyChangeError /\ cls = "ValueError"

\* ------------------------------------------------------------- helpers
SortedSeq(S) ==
    CHOOSE s \in [1..Cardinality(S) -> S] :
        \A i, j \in 1..Cardinality(S) : i < j => s[i] < s[j]

\* eptm.vert_df.loc[eptm.active_verts, eptm.coords].values.flatten()
active_pos(e) ==
    LET s == SortedSeq(e.active)
    IN  [i \in 1..(Cardinality(e.active) * NDims) |->
            e.pos[s[((i - 1) \div NDims) + 1]][((i - 1) % NDims) + 1]]

\* ------------------------------------------------- position update chain
\* outcome of one position-update call: the mesh it leaves, the exception it
\* raised, the stages it ran, in order, and the topology changes it made
Outcome(e, exc, trace, topo) == [eptm |-> e, exc |-> exc, trace |-> trace, topo |-> topo]

\* QSSolver._set_pos: reshape the trial vector and write it to the active rows.
\* reshape raises when the length is no multiple of ndims; the assignment
\* raises when the row counts differ, except that a single row is written to
\* every active row by a pandas whose .loc assignment broadcasts.
_set_pos(e, pos, broadcasts) ==
    LET ndims == NDims
        num_p == Len(pos) \div ndims
        s == SortedSeq(e.active)
    IN  IF num_p * ndims # Len(pos)
        THEN Outcome(e, "ValueError", <<>>, 0)
        ELSE IF num_p # Cardinality(e.active) /\ num_p = 1 /\ broadcasts
        THEN Outcome([e EXCEPT !.pos = [v \in e.verts |->
                         IF v \in e.active
                         THEN [c \in 1..ndims |-> pos[c]]
                         ELSE e.pos[v]]],
                     NoExc, <<"_set_pos", "update_all">>, 0)
        ELSE IF num_p # Cardinality(e.active)
        THEN Outcome(e, "ValueError", <<>>, 0)
        ELSE Outcome([e EXCEPT !.pos = [v \in e.verts |->
                         IF v \in e.active
                         THEN LET k == CHOOSE i \in 1..num_p : s[i] = v
                              IN  [c \in 1..ndims |-> pos[(k - 1) * ndims + c]]
                         ELSE e.pos[v]]],
                     NoExc, <<"_set_pos", "update_all">>, 0)

\* mutant: the resolver also deactivates the vertex it moves back
boxes_solve_Deactivate(e, position_buffer, ch) ==
    IF ch.corr \in e.verts /\ ch.corr \in DOMAIN position_buffer
    THEN [e EXCEPT !.pos[ch.corr] = position_buffer[ch.corr],
                   !.active = IF e.active = {ch.corr} THEN e.active
                              ELSE e.active \ {ch.corr}]
    ELSE e

\* CollidingBoxes.solve_collisions as the solver sees it: it moves vertices
\* between their snapshot and their current position and leaves the vertex
\* set alone.  Here the vertex ch.corr is moved back to its snapshot position.
boxes_solve(e, position_buffer, ch) ==
    IF ch.corr \in e.verts /\ ch.corr \in DOMAIN position_buffer
    THEN [e EXCEPT !.pos[ch.corr] = position_buffer[ch.corr]]
    ELSE e

\* solve_collisions.with_collision_correction around the outcome r of fun
with_collision_correction(r, sh, ch) ==
    LET position_buffer == sh.pos
    IN  IF r.exc # NoExc THEN r
        ELSE IF ch.nb_inter # 0
        THEN Outcome(boxes_solve(r.eptm, position_buffer, ch), NoExc,
                     r.trace \o <<"self_intersections", "solve_collisions", "update_all">>,
                     r.topo)
        ELSE Outcome(r.eptm, NoExc,
                     r.trace \o <<"self_intersections", "update_all">>, r.topo)

\* a topology operator's effect on the mesh: it may add a vertex, remove an
\* active vertex, or find nothing to do
rearange(e, what) ==
    CASE what = "add" /\ e.verts # Ids ->
            LET v == CHOOSE x \in Ids \ e.verts : \A y \in Ids \ e.verts : x <= y
            IN  [verts |-> e.verts \cup {v}, active |-> e.active \cup {v},
                 pos |-> [w \in e.verts \cup {v} |->
                            IF w = v THEN [c \in 1..NDims |-> 0] ELSE e.pos[w]]]
      [] what = "remove" /\ Cardinality(e.active) > 1 ->
            LET v == CHOOSE x \in e.active : \A y \in e.active : x >= y
            IN  [verts |-> e.verts \ {v}, active |-> e.active \ {v},
                 pos |-> [w \in e.verts \ {v} |-> e.pos[w]]]
      [] OTHER -> e

\* topology.auto_t1 / auto_t3: the wrapped call first, then the operator
with_rearange(r, name, what, budget) ==
    IF r.exc # NoExc THEN r
    ELSE LET e2 == IF r.topo < budget THEN rearange(r.eptm, what) ELSE r.eptm
         IN  Outcome(e2, NoExc, r.trace \o <<name>>,
                     IF e2.active # r.eptm.active THEN r.topo + 1 ELSE r.topo)

\* QSSolver.__init__: the wrappers, innermost first
QSSolver_DocOrder(wc, wt1, wt3) ==
    [set_pos |-> <<"_set_pos">>
                 \o (IF wt1 THEN <<"auto_t1">> ELSE <<>>)
                 \o (IF wt3 THEN <<"auto_t3">> ELSE <<>>)
                 \o (IF wc THEN <<"solve_collisions">> ELSE <<>>),
     restart |-> TRUE,
     rearange |-> wt1 \/ wt3]

QSSolver(wc, wt1, wt3) ==
    [set_pos |-> <<"_set_pos">>
                 \o (IF wc THEN <<"solve_collisions">> ELSE <<>>)
                 \o (IF wt1 THEN <<"auto_t1">> ELSE <<>>)
                 \o (IF wt3 THEN <<"auto_t3">> ELSE <<>>),
     restart |-> TRUE,
     rearange |-> wt1 \/ wt3]

\* self.set_pos(eptm, geom, pos): wrapper k of the chain calls wrapper k-1
RECURSIVE set_pos(_, _, _, _, _)
set_pos(chain, k, e, pos, ch) ==
    IF chain[k] = "_set_pos" THEN _set_pos(e, pos, ch.broadcasts)
    ELSE LET r == set_pos(chain, k - 1, e, pos, ch)
         IN  CASE chain[k] = "solve_collisions" -> with_collision_correction(r, e, ch)
               [] chain[k] = "auto_t1" -> with_rearange(r, "auto_t1", ch.t1, ch.budget)
               [] chain[k] = "auto_t3" -> with_rearange(r, "auto_t3", ch.t3, ch.budget)

\* ------------------------------------------------------- evaluations
\* what one call of _opt_energy / _opt_grad did
Eval(op, pos, e, exc, wrote, computed, trace, topo) ==
    [op |-> op, pos |-> pos, eptm |-> e, exc |-> exc, wrote |-> wrote,
     computed |-> computed, trace |-> trace, topo |-> topo]

\* mutant: the trial is written before the vertex count is compared
_opt_energy_WriteFirst(slf, pos, e, ch) ==
    LET r == set_pos(slf.set_pos, Len(slf.set_pos), e, pos, ch)
    IN  IF slf.rearange /\ Len(pos) \div NDims # Cardinality(e.active)
        THEN Eval("energy", pos, r.eptm, TopologyChangeError, TRUE, FALSE, r.trace, r.topo)
        ELSE IF r.exc # NoExc
        THEN Eval("energy", pos, r.eptm, r.exc, TRUE, FALSE, r.trace, r.topo)
        ELSE IF ch.fail # NoExc
        THEN Eval("energy", pos, r.eptm, ch.fail, TRUE, TRUE, r.trace, r.topo)
        ELSE Eval("energy", pos, r.eptm, NoExc, TRUE, TRUE, r.trace, r.topo)

\* mutant: the vertex count is compared again after the position update
_opt_energy_SignalAtOnce(slf, pos, e, ch) ==
    IF slf.rearange /\ Len(pos) \div NDims # Cardinality(e.active)
    THEN Eval("energy", pos, e, TopologyChangeError, FALSE, FALSE, <<>>, 0)
    ELSE LET r == set_pos(slf.set_pos, Len(slf.set_pos), e, pos, ch)
         IN  IF r.exc # NoExc
             THEN Eval("energy", pos, r.eptm, r.exc, TRUE, FALSE, r.trace, r.topo)
             ELSE IF slf.rearange /\ Len(pos) \div NDims # Cardinality(r.eptm.active)
             THEN Eval("energy", pos, r.eptm, TopologyChangeError, TRUE, FALSE, r.trace, r.topo)
             ELSE IF ch.fail # NoExc
             THEN Eval("energy", pos, r.eptm, ch.fail, TRUE, TRUE, r.trace, r.topo)
             ELSE Eval("energy", pos, r.eptm, NoExc, TRUE, TRUE, r.trace, r.topo)

\* QSSolver._opt_energy
_opt_energy(slf, pos, e, ch) ==
    IF slf.rearange /\ Len(pos) \div NDims # Cardinality(e.active)
    THEN Eval("energy", pos, e, TopologyChangeError, FALSE, FALSE, <<>>, 0)
    ELSE LET r == set_pos(slf.set_pos, Len(slf.set_pos), e, pos, ch)
         IN  IF r.exc # NoExc
             THEN Eval("energy", pos, r.eptm, r.exc, TRUE, FALSE, r.trace, r.topo)
             ELSE IF ch.fail # NoExc
             THEN Eval("energy", pos, r.eptm, ch.fail, TRUE, TRUE, r.trace, r.topo)
             ELSE Eval("energy", pos, r.eptm, NoExc, TRUE, TRUE, r.trace, r.topo)

\* QSSolver._opt_grad
_opt_grad(slf, pos, e, ch) ==
    IF slf.rearange /\ Len(pos) \div NDims # Cardinality(e.active)
    THEN Eval("grad", pos, e, TopologyChangeError, FALSE, FALSE, <<>>, 0)
    ELSE IF ch.fail # NoExc
    THEN Eval("grad", pos, e, ch.fail, FALSE, TRUE, <<>>, 0)
    ELSE Eval("grad", pos, e, NoExc, FALSE, TRUE, <<>>, 0)

\* --------------------------------------------------------- _minimize
Control(p, x0, r, n, e) == [pc |-> p, pos0 |-> x0, run |-> r, nEval |-> n, err |-> e]

\* mutant: the except clause names ValueError, the base class
_minimize_CatchValueError(ev, ctl) ==
    IF IsInstance(ev.exc, "ValueError")
    THEN Control("optimizing", active_pos(ev.eptm), ctl.run + 1, 0, NoExc)
    ELSE IF ev.exc # NoExc
    THEN Control("failed", ctl.pos0, ctl.run, ctl.nEval, ev.exc)
    ELSE Control("optimizing", ctl.pos0, ctl.run, ctl.nEval + 1, NoExc)

\* mutant: pos0 is read once, before the loop
_minimize_StalePos0(ev, ctl) ==
    IF IsInstance(ev.exc, TopologyChangeError)
    THEN Control("optimizing", ctl.pos0, ctl.run + 1, 0, NoExc)
    ELSE IF ev.exc # NoExc
    THEN Control("failed", ctl.pos0, ctl.run, ctl.nEval, ev.exc)
    ELSE Control("optimizing", ctl.pos0, ctl.run, ctl.nEval + 1, NoExc)

\* mutant: the interrupted run is taken up again as it was
_minimize_RetrySameRun(ev, ctl) ==
    IF IsInstance(ev.exc, TopologyChangeError)
    THEN Control("optimizing", ctl.pos0, ctl.run, 0, NoExc)
    ELSE IF ev.exc # NoExc
    THEN Control("failed", ctl.pos0, ctl.run, ctl.nEval, ev.exc)
    ELSE Control("optimizing", ctl.pos0, ctl.run, ctl.nEval + 1, NoExc)

\* QSSolver._minimize, one evaluation of the optimizer run further: the
\* topology-change signal restarts the loop with the current active vector,
\* any other exception leaves find_energy_min
_minimize(ev, ctl) ==
    IF IsInstance(ev.exc, TopologyChangeError)
    THEN Control("optimizing", active_pos(ev.eptm), ctl.run + 1, 0, NoExc)
    ELSE IF ev.exc # NoExc
    THEN Control("failed", ctl.pos0, ctl.run, ctl.nEval, ev.exc)
    ELSE Control("optimizing", ctl.pos0, ctl.run, ctl.nEval + 1, NoExc)

\* ------------------------------------------------- external collaborators
\* the trial vectors the optimizer proposes: the length of pos0
Trials(n) == {[i \in 1..n |-> (c + i * k) % (MaxVal + 1)] : c \in Vals, k \in {0, 1}}

Has(slf, stage) == \E i \in 1..Len(slf.set_pos) : slf.set_pos[i] = stage

\* what the collaborators do during one evaluation: the intersection
\* detector, the resolver, the topology operators, the model (the optimizer's
\* trial vectors have the length of pos0, so that no assignment broadcasts)
Choices(slf) ==
    [nb_inter : IF Has(slf, "solve_collisions") THEN {0, 1} ELSE {0},
     corr     : IF Has(slf, "solve_collisions") THEN {1} ELSE {0},
     t1       : IF Has(slf, "auto_t1") THEN {"none", "add", "remove"} ELSE {"none"},
     t3       : IF Has(slf, "auto_t3") THEN {"none", "remove"} ELSE {"none"},
     fail     : {NoExc, "ValueError", "RuntimeError"},
     budget   : {MaxTopo - ntopo},
     broadcasts : {FALSE}]

\* the same, for a caller that passes trial vectors of any length
AnyChoices(slf) ==
    {[ch EXCEPT !.broadcasts = b] : ch \in Choices(slf), b \in BOOLEAN}

\* trial vectors of any length up to that of the whole mesh
AnyTrials == UNION {Trials(n) : n \in 0..(MaxVerts * NDims)}

InitMeshes ==
    {[verts |-> {1, 2}, active |-> a, pos |-> [v \in {1, 2} |-> [c \in 1..NDims |-> 0]]] :
        a \in {{1, 2}, {1}}}

\* the position update last made on the mesh: the trial vector _set_pos wrote
Written(pos) == [done |-> TRUE, pos |-> pos]
NothingWritten == [done |-> FALSE, pos |-> <<>>]

Step(ev, r) ==
    [op |-> ev.op, pos |-> ev.pos, exc |-> ev.exc, wrote |-> ev.wrote,
     computed |-> ev.computed, trace |-> ev.trace, run |-> r]

\* ====================================================== collision resolver
\* Coordinates of the sheet are exact rationals <<n, d>>, d > 0, in lowest
\* terms; <<1, 0>> is +inf and <<-1, 0>> is -inf (np.inf in the bound tables).
RECURSIVE Gcd(_, _)
Gcd(a, b) == IF b = 0 THEN a ELSE Gcd(b, a % b)

Abs(n) == IF n < 0 THEN -n ELSE n

Rat(n, d) ==
    LET m == IF d < 0 THEN -n ELSE n
        e == Abs(d)
        g == Gcd(Abs(m), e)
    IN  <<m \div g, e \div g>>

RInt(i) == <<i, 1>>
PInf == <<1, 0>>
NInf == <<-1, 0>>
IsFinite(a) == a[2] # 0

RLe(a, b) ==
    IF a = b THEN TRUE
    ELSE IF a = NInf \/ b = PInf THEN TRUE
    ELSE IF a = PInf \/ b = NInf THEN FALSE
    ELSE a[1] * b[2] <= b[1] * a[2]

RLt(a, b) == a # b /\ RLe(a, b)
RMax(a, b) == IF RLe(a, b) THEN b ELSE a
RMin(a, b) == IF RLe(a, b) THEN a ELSE b
RAdd(a, b) == Rat(a[1] * b[2] + b[1] * a[2], a[2] * b[2])
RSub(a, b) == Rat(a[1] * b[2] - b[1] * a[2], a[2] * b[2])
RMul(a, b) == Rat(a[1] * b[1], a[2] * b[2])
RDiv(a, b) == Rat(a[1] * b[2], a[2] * b[1])
RHalf(a) == Rat(a[1], 2 * a[2])
RSign(a) == IF a[1] < 0 THEN -1 ELSE IF a[1] > 0 THEN 1 ELSE 0

\* sheet.coords: axis 1 is x, axis 2 is y (the z column behaves as y does
\* and is left out)
Coords == {1, 2}
PerCoord(f) == <<f[1], f[2]>>

\* sheet.edge_df: the source vertex and the face of every edge
EdgeSrce == <<1, 2, 3, 4>>
EdgeFace == <<1, 2, 2, 3>>
Edges == DOMAIN EdgeSrce
SheetVerts == {EdgeSrce[e] : e \in Edges}
PerVert(f) == <<f[1], f[2], f[3], f[4]>>
Faces == {EdgeFace[e] : e \in Edges}

\* edge_df[edge_df["face"] == f].srce
FaceSrce(f) == {EdgeSrce[e] : e \in {x \in Edges : EdgeFace[x] = f}}

RMinOf(S) == CHOOSE a \in S : \A b \in S : RLe(a, b)
RMaxOf(S) == CHOOSE a \in S : \A b \in S : RLe(b, a)

\* _face_bbox of face f on the positions pos (sx, sy of its edges)
_face_bbox(pos, f) ==
    PerCoord([c \in Coords |-> [l |-> RMinOf({pos[v][c] : v \in FaceSrce(f)}),
                         h |-> RMaxOf({pos[v][c] : v \in FaceSrce(f)})]])

\* mutant: the pairs of one face are kept
_get_intersecting_faces_KeepDegenerate(edge_pairs) ==
    LET _face_pairs == [i \in DOMAIN edge_pairs |->
                           {EdgeFace[edge_pairs[i][1]], EdgeFace[edge_pairs[i][2]]}]
    IN  {_face_pairs[i] : i \in DOMAIN _face_pairs}

\* CollidingBoxes._get_intersecting_faces: the unordered pairs of two
\* distinct faces owning the edges of a pair
_get_intersecting_faces(edge_pairs) ==
    LET _face_pairs == [i \in DOMAIN edge_pairs |->
                           {EdgeFace[edge_pairs[i][1]], EdgeFace[edge_pairs[i][2]]}]
        unique_pairs == {_face_pairs[i] : i \in DOMAIN _face_pairs}
    IN  {pair \in unique_pairs : Cardinality(pair) = 2}

\* the arrays np.array([[*pair] for pair in unique_pairs]) may be: the set is
\* iterated in an order, and each pair unpacked in an order, that the faces'
\* hashes decide
FacePairArrays(unique) ==
    {fp \in [1..Cardinality(unique) -> {<<f, g>> : f \in Faces, g \in Faces}] :
        /\ \A i \in DOMAIN fp : {fp[i][1], fp[i][2]} \in unique
        /\ \A i, j \in DOMAIN fp : i # j => {fp[i][1], fp[i][2]} # {fp[j][1], fp[j][2]}}

\* what _collision_plane returns: found = FALSE is (None, None); the bounds
\* lower / upper are read on the axes coll_ax only
Plane(found, lower_index, upper_index, coll_ax, coords, shy) ==
    [found |-> found, lower_index |-> lower_index, upper_index |-> upper_index,
     coll_ax |-> coll_ax, plane_coords |-> coords,
     lower |-> PerCoord([c \in Coords |-> IF c \in coll_ax THEN RAdd(coords[c], RHalf(shy)) ELSE NInf]),
     upper |-> PerCoord([c \in Coords |-> IF c \in coll_ax THEN RSub(coords[c], RHalf(shy)) ELSE PInf])]

\* mutant: the mirror case is tried first
_collision_plane_MirrorFirst(cur, edge_buffer, face_pair, shy) ==
    LET f0 == face_pair[1]
        f1 == face_pair[2]
        bb0c == _face_bbox(cur, f0)
        bb1c == _face_bbox(cur, f1)
        bb0p == _face_bbox(edge_buffer, f0)
        bb1p == _face_bbox(edge_buffer, f1)
        dr0 == PerCoord([c \in Coords |-> [l |-> RSub(bb0c[c].l, bb0p[c].l), h |-> RSub(bb0c[c].h, bb0p[c].h)]])
        dr1 == PerCoord([c \in Coords |-> [l |-> RSub(bb1c[c].l, bb1p[c].l), h |-> RSub(bb1c[c].h, bb1p[c].h)]])
        sign_change_l1h0 == {c \in Coords :
            RSign(RMul(RSub(bb1c[c].l, bb0c[c].h), RSub(bb1p[c].l, bb0p[c].h))) < 0}
        sign_change_l0h1 == {c \in Coords :
            RSign(RMul(RSub(bb0c[c].l, bb1c[c].h), RSub(bb0p[c].l, bb1p[c].h))) < 0}
    IN  IF sign_change_l0h1 # {}
        THEN Plane(TRUE, FaceSrce(f0), FaceSrce(f1), sign_change_l0h1,
                   PerCoord([c \in Coords |-> IF c \in sign_change_l0h1
                        THEN RDiv(RSub(RMul(bb1p[c].h, dr0[c].l), RMul(bb0p[c].l, dr1[c].h)),
                                  RSub(dr0[c].l, dr1[c].h))
                        ELSE RInt(0)]), shy)
        ELSE IF sign_change_l1h0 # {}
        THEN Plane(TRUE, FaceSrce(f1), FaceSrce(f0), sign_change_l1h0,
                   PerCoord([c \in Coords |-> IF c \in sign_change_l1h0
                        THEN RDiv(RSub(RMul(bb0p[c].h, dr1[c].l), RMul(bb1p[c].l, dr0[c].h)),
                                  RSub(dr1[c].l, dr0[c].h))
                        ELSE RInt(0)]), shy)
        ELSE Plane(FALSE, {}, {}, {}, PerCoord([c \in Coords |-> RInt(0)]), shy)

\* CollidingBoxes._collision_plane
_collision_plane(cur, edge_buffer, face_pair, shy) ==
    LET f0 == face_pair[1]
        f1 == face_pair[2]
        bb0c == _face_bbox(cur, f0)
        bb1c == _face_bbox(cur, f1)
        bb0p == _face_bbox(edge_buffer, f0)
        bb1p == _face_bbox(edge_buffer, f1)
        dr0 == PerCoord([c \in Coords |-> [l |-> RSub(bb0c[c].l, bb0p[c].l), h |-> RSub(bb0c[c].h, bb0p[c].h)]])
        dr1 == PerCoord([c \in Coords |-> [l |-> RSub(bb1c[c].l, bb1p[c].l), h |-> RSub(bb1c[c].h, bb1p[c].h)]])
        sign_change_l1h0 == {c \in Coords :
            RSign(RMul(RSub(bb1c[c].l, bb0c[c].h), RSub(bb1p[c].l, bb0p[c].h))) < 0}
        sign_change_l0h1 == {c \in Coords :
            RSign(RMul(RSub(bb0c[c].l, bb1c[c].h), RSub(bb0p[c].l, bb1p[c].h))) < 0}
    IN  IF sign_change_l1h0 # {}
        THEN Plane(TRUE, FaceSrce(f1), FaceSrce(f0), sign_change_l1h0,
                   PerCoord([c \in Coords |-> IF c \in sign_change_l1h0
                        THEN RDiv(RSub(RMul(bb0p[c].h, dr1[c].l), RMul(bb1p[c].l, dr0[c].h)),
                                  RSub(dr1[c].l, dr0[c].h))
                        ELSE RInt(0)]), shy)
        ELSE IF sign_change_l0h1 # {}
        THEN Plane(TRUE, FaceSrce(f0), FaceSrce(f1), sign_change_l0h1,
                   PerCoord([c \in Coords |-> IF c \in sign_change_l0h1
                        THEN RDiv(RSub(RMul(bb1p[c].h, dr0[c].l), RMul(bb0p[c].l, dr1[c].h)),
                                  RSub(dr0[c].l, dr1[c].h))
                        ELSE RInt(0)]), shy)
        ELSE Plane(FALSE, {}, {}, {}, PerCoord([c \in Coords |-> RInt(0)]), shy)

\* the two bound tables of solve_collisions; a vertex that is not among the
\* colliding vertices has no row, shown here as a row of -inf / +inf
Tables ==
    [plane_found |-> FALSE,
     lower |-> PerVert([v \in SheetVerts |-> PerCoord([c \in Coords |-> NInf])]),
     upper |-> PerVert([v \in SheetVerts |-> PerCoord([c \in Coords |-> PInf])])]

\* mutant: the bounds of a face pair replace those of the pairs before it
FoldPlane_Overwrite(t, plane) ==
    IF ~plane.found THEN t
    ELSE [plane_found |-> TRUE,
          lower |-> PerVert([v \in SheetVerts |-> PerCoord([c \in Coords |->
                        IF v \in plane.lower_index /\ c \in plane.coll_ax
                        THEN plane.lower[c]
                        ELSE t.lower[v][c]])]),
          upper |-> PerVert([v \in SheetVerts |-> PerCoord([c \in Coords |->
                        IF v \in plane.upper_index /\ c \in plane.coll_ax
                        THEN plane.upper[c]
                        ELSE t.upper[v][c]])])]

\* solve_collisions, body of the loop over get_limits: one face pair folded in
FoldPlane(t, plane) ==
    IF ~plane.found THEN t
    ELSE [plane_found |-> TRUE,
          lower |-> PerVert([v \in SheetVerts |-> PerCoord([c \in Coords |->
                        IF v \in plane.lower_index /\ c \in plane.coll_ax
                        THEN RMax(t.lower[v][c], plane.lower[c])
                        ELSE t.lower[v][c]])]),
          upper |-> PerVert([v \in SheetVerts |-> PerCoord([c \in Coords |->
                        IF v \in plane.upper_index /\ c \in plane.coll_ax
                        THEN RMin(t.upper[v][c], plane.upper[c])
                        ELSE t.upper[v][c]])])]

\* the tables after the first k face pairs
RECURSIVE Aggregate(_, _)
Aggregate(planes, k) ==
    IF k = 0 THEN Tables
    ELSE FoldPlane(Aggregate(planes, k - 1), planes[k])

RECURSIVE Planes(_, _, _, _, _)
Planes(cur, edge_buffer, face_pairs, shy, k) ==
    IF k = 0 THEN <<>>
    ELSE Append(Planes(cur, edge_buffer, face_pairs, shy, k - 1),
                _collision_plane(cur, edge_buffer, face_pairs[k], shy))

\* what solve_collisions did
Solved(ret, pos, planes, t) ==
    [ret |-> ret, pos |-> pos, planes |-> planes, lower |-> t.lower, upper |-> t.upper]

\* mutant: the resolver goes on to the corrections when no plane was found
solve_collisions_NoEarlyReturn(cur, edge_buffer, face_pairs, shy, lower_wins) ==
    LET planes == Planes(cur, edge_buffer, face_pairs, shy, Len(face_pairs))
    IN  Solved("None", cur, planes, Aggregate(planes, Len(face_pairs)))

\* mutant: the loop over get_limits ends at the first pair without a plane
solve_collisions_StopAtNone(cur, edge_buffer, face_pairs, shy, lower_wins) ==
    LET colliding_verts ==
            {EdgeSrce[e] : e \in {x \in Edges :
                \E i \in DOMAIN face_pairs : EdgeFace[x] \in {face_pairs[i][1], face_pairs[i][2]}}}
        planes == Planes(cur, edge_buffer, face_pairs, shy, Len(face_pairs))
        t == Aggregate(planes, IF \A k \in DOMAIN planes : planes[k].found
                               THEN Len(face_pairs)
                               ELSE (CHOOSE k \in DOMAIN planes :
                                        /\ ~planes[k].found
                                        /\ \A j \in 1..(k - 1) : planes[j].found) - 1)
        plane_found == t.plane_found /\ colliding_verts # {}
        upper_index == {v \in colliding_verts : \E c \in Coords : IsFinite(t.upper[v][c])}
        lower_index == {v \in colliding_verts : \E c \in Coords : IsFinite(t.lower[v][c])}
    IN  IF ~plane_found
        THEN Solved("0", cur, planes, t)
        ELSE Solved("None",
                    PerVert([v \in SheetVerts |->
                        IF v \in lower_index /\ (v \notin upper_index \/ v \in lower_wins)
                        THEN PerCoord([c \in Coords |-> RMax(cur[v][c], t.lower[v][c])])
                        ELSE IF v \in upper_index
                        THEN PerCoord([c \in Coords |-> RMin(cur[v][c], t.upper[v][c])])
                        ELSE cur[v]]),
                    planes, t)

\* mutant: a corrected vertex is put back on its snapshot on the axes where
\* it has no bound
solve_collisions_RevertOthers(cur, edge_buffer, face_pairs, shy, lower_wins) ==
    LET colliding_verts ==
            {EdgeSrce[e] : e \in {x \in Edges :
                \E i \in DOMAIN face_pairs : EdgeFace[x] \in {face_pairs[i][1], face_pairs[i][2]}}}
        planes == Planes(cur, edge_buffer, face_pairs, shy, Len(face_pairs))
        t == Aggregate(planes, Len(face_pairs))
        plane_found == t.plane_found /\ colliding_verts # {}
        upper_index == {v \in colliding_verts : \E c \in Coords : IsFinite(t.upper[v][c])}
        lower_index == {v \in colliding_verts : \E c \in Coords : IsFinite(t.lower[v][c])}
    IN  IF ~plane_found
        THEN Solved("0", cur, planes, t)
        ELSE Solved("None",
                    PerVert([v \in SheetVerts |->
                        IF v \in lower_index /\ (v \notin upper_index \/ v \in lower_wins)
                        THEN PerCoord([c \in Coords |-> IF IsFinite(t.lower[v][c])
                                 THEN RMax(cur[v][c], t.lower[v][c])
                                 ELSE edge_buffer[v][c]])
                        ELSE IF v \in upper_index
                        THEN PerCoord([c \in Coords |-> IF IsFinite(t.upper[v][c])
                                 THEN RMin(cur[v][c], t.upper[v][c])
                                 ELSE edge_buffer[v][c]])
                        ELSE cur[v]]),
                    planes, t)

\* CollidingBoxes.solve_collisions.  lower_wins: the vertices, among those with
\* a row in correction_lower and a row in correction_upper, whose lower row is
\* the one the final assignment writes last.
solve_collisions(cur, edge_buffer, face_pairs, shy, lower_wins) ==
    LET colliding_verts ==
            {EdgeSrce[e] : e \in {x \in Edges :
                \E i \in DOMAIN face_pairs : EdgeFace[x] \in {face_pairs[i][1], face_pairs[i][2]}}}
        planes == Planes(cur, edge_buffer, face_pairs, shy, Len(face_pairs))
        t == Aggregate(planes, Len(face_pairs))
        plane_found == t.plane_found /\ colliding_verts # {}
        upper_index == {v \in colliding_verts : \E c \in Coords : IsFinite(t.upper[v][c])}
        lower_index == {v \in colliding_verts : \E c \in Coords : IsFinite(t.lower[v][c])}
    IN  IF ~plane_found
        THEN Solved("0", cur, planes, t)
        ELSE Solved("None",
                    PerVert([v \in SheetVerts |->
                        IF v \in lower_index /\ (v \notin upper_index \/ v \in lower_wins)
                        THEN PerCoord([c \in Coords |-> RMax(cur[v][c], t.lower[v][c])])
                        ELSE IF v \in upper_index
                        THEN PerCoord([c \in Coords |-> RMin(cur[v][c], t.upper[v][c])])
                        ELSE cur[v]]),
                    planes, t)

\* what one collision-wrapped position update did
Call(buffer, after_fun, edge_pairs, face_pairs, ran, r, trace, fun_res) ==
    [res |-> fun_res, position_buffer |-> buffer, after_fun |-> after_fun,
     edge_pairs |-> edge_pairs, face_pairs |-> face_pairs, ran |-> ran, ret |-> r.ret,
     planes |-> r.planes, lower |-> r.lower, upper |-> r.upper, pos |-> r.pos,
     trace |-> trace]

NotRun(cur) == Solved("-", cur, <<>>, Tables)

\* mutant: the resolver is run whatever the detector reports
sheet_update_AlwaysResolve(before, trial, fun_res, edge_pairs, face_pairs, shy, lower_wins) ==
    Call(before, trial, edge_pairs, face_pairs, TRUE,
         solve_collisions(trial, before, face_pairs, shy, lower_wins),
         <<"copy", "fun", "self_intersections", "solve_collisions", "update_all">>, fun_res)

\* mutant: the snapshot is taken after fun has run
sheet_update_SnapshotAfterFun(before, trial, fun_res, edge_pairs, face_pairs, shy, lower_wins) ==
    IF Len(edge_pairs) # 0
    THEN Call(trial, trial, edge_pairs, face_pairs, TRUE,
              solve_collisions(trial, trial, face_pairs, shy, lower_wins),
              <<"fun", "copy", "self_intersections", "solve_collisions", "update_all">>,
              fun_res)
    ELSE Call(trial, trial, edge_pairs, face_pairs, FALSE, NotRun(trial),
              <<"fun", "copy", "self_intersections", "update_all">>, fun_res)

\* solve_collisions.with_collision_correction on the sheet: fun writes the
\* positions `trial` and returns fun_res; the detector reports edge_pairs
sheet_update(before, trial, fun_res, edge_pairs, face_pairs, shy, lower_wins) ==
    LET position_buffer == before
        cur == trial
    IN  IF Len(edge_pairs) # 0
        THEN Call(position_buffer, cur, edge_pairs, face_pairs, TRUE,
                  solve_collisions(cur, position_buffer, face_pairs, shy, lower_wins),
                  <<"copy", "fun", "self_intersections", "solve_collisions", "update_all">>,
                  fun_res)
        ELSE Call(position_buffer, cur, edge_pairs, face_pairs, FALSE, NotRun(cur),
                  <<"copy", "fun", "self_intersections", "update_all">>, fun_res)

\* ---------------------------------------------- the sheet's collaborators
\* the positions the wrapped update may write
TrialPositions ==
    {PerVert([v \in SheetVerts |-> <<RInt(xs[v]), RInt(ys[v])>>]) :
        xs \in [SheetVerts -> 0..MaxX], ys \in [SheetVerts -> 0..MaxY]}

\* the sheet before the update: face 1, face 2 and face 3 side by side along
\* x; face 1 above face 3 along y, face 2 spanning both
PrevLayout ==
    PerVert([v \in SheetVerts |-> <<RInt(<<0, 1, 1, 2>>[v]), RInt(<<1, 0, 1, 0>>[v])>>])

\* self_intersections(sheet): edge pairs, each of two edges whose faces'
\* bounding boxes meet on every axis, at most MaxPairs of them, listed in
\* the order of the edge ids
Meets(cur, f, g) ==
    \A c \in Coords :
        /\ RLe(_face_bbox(cur, f)[c].l, _face_bbox(cur, g)[c].h)
        /\ RLe(_face_bbox(cur, g)[c].l, _face_bbox(cur, f)[c].h)

PairCode(a, b) == (a - 1) * Cardinality(Edges) + b
PairOf(k) == <<((k - 1) \div Cardinality(Edges)) + 1, ((k - 1) % Cardinality(Edges)) + 1>>

self_intersections(cur) ==
    LET codes == {PairCode(a, b) : a \in Edges, b \in Edges}
        hits == {k \in codes : /\ PairOf(k)[1] < PairOf(k)[2]
                               /\ Meets(cur, EdgeFace[PairOf(k)[1]], EdgeFace[PairOf(k)[2]])}
    IN  {[i \in 1..Cardinality(I) |-> PairOf(SortedSeq(I)[i])] :
            I \in {J \in SUBSET hits : Cardinality(J) <= MaxPairs}}

\* the vertices with a row in both correction tables
BothRows(r) ==
    {v \in SheetVerts : /\ \E c \in Coords : IsFinite(r.lower[v][c])
                        /\ \E c \in Coords : IsFinite(r.upper[v][c])}

FunReturns == {"None", "res"}

NoCall == Call(PrevLayout, PrevLayout, <<>>, <<>>, FALSE, NotRun(PrevLayout), <<>>, "None")

\* one call of the collision-wrapped position update
SheetUpdate ==
    /\ cpc = "ready"
    /\ \E trial \in TrialPositions :
       \E edge_pairs \in self_intersections(trial) :
       \E face_pairs \in FacePairArrays(_get_intersecting_faces(edge_pairs)) :
       \E lower_wins \in SUBSET BothRows(solve_collisions(trial, sheet, face_pairs, shyness, {})) :
       \E fun_res \in FunReturns :
          /\ call' = sheet_update(sheet, trial, fun_res, edge_pairs, face_pairs, shyness, lower_wins)
          /\ sheet' = call'.pos
    /\ cpc' = "done"
    /\ UNCHANGED <<shyness, again, svars>>

\* boxes.solve_collisions(shyness) once more, on the boxes of the last update
\* and the sheet that update left
Again(r, before) == [ret |-> r.ret, before |-> before, pos |-> r.pos]

NoAgain == Again(NotRun(PrevLayout), PrevLayout)

SolveAgain ==
    /\ cpc = "done"
    /\ call.ran
    /\ \E lower_wins \in SUBSET BothRows(solve_collisions(sheet, call.position_buffer,
                                                         call.face_pairs, shyness, {})) :
          /\ again' = Again(solve_collisions(sheet, call.position_buffer, call.face_pairs,
                                             shyness, lower_wins), sheet)
          /\ sheet' = again'.pos
    /\ cpc' = "again"
    /\ UNCHANGED <<shyness, call, svars>>

\* the arrays of intersecting edges a CollidingBoxes may be built on: any
\* edges, in any order, any number of times
EdgePairSeqs == UNION {[1..n -> Edges \X Edges] : n \in 0..MaxPairs}

\* CollidingBoxes(sheet, position_buffer, intersecting_edges)
NewCollidingBoxes ==
    /\ cpc = "ready"
    /\ \E edge_pairs \in EdgePairSeqs :
       \E face_pairs \in FacePairArrays(_get_intersecting_faces(edge_pairs)) :
          call' = Call(sheet, sheet, edge_pairs, face_pairs, FALSE, NotRun(sheet),
                       <<>>, "None")
    /\ cpc' = "built"
    /\ UNCHANGED <<sheet, shyness, again, svars>>

\* boxes._collision_plane(face_pair, shyness) for any two faces of a sheet
\* that the update has moved anywhere
CollisionPlane ==
    /\ cpc = "ready"
    /\ \E cur \in TrialPositions :
       \E face_pair \in {fp \in Faces \X Faces : fp[1] # fp[2]} :
          call' = Call(sheet, cur, <<>>, <<face_pair>>, FALSE,
                       Solved("-", cur, <<_collision_plane(cur, sheet, face_pair, shyness)>>,
                              Tables),
                       <<>>, "None")
    /\ cpc' = "plane"
    /\ UNCHANGED <<sheet, shyness, again, svars>>

\* the planes get_limits may yield for the face pairs of some boxes: none, or
\* a plane on some axes between the source vertices of two faces
AnyPlanes(shy) ==
    {Plane(FALSE, {}, {}, {}, PerCoord([c \in Coords |-> RInt(0)]), shy)} \cup
    {Plane(TRUE, FaceSrce(q[2]), FaceSrce(q[1]), q[3],
           PerCoord([c \in Coords |-> IF c \in q[3] THEN RInt(q[4][c]) ELSE RInt(0)]), shy) :
        q \in {x \in Faces \X Faces \X (SUBSET Coords \ {{}}) \X [Coords -> 0..MaxX] :
                  x[1] # x[2]}}

\* the bound tables a call record holds
TablesOf(c) ==
    [plane_found |-> \E k \in DOMAIN c.planes : c.planes[k].found,
     lower |-> c.lower, upper |-> c.upper]

\* solve_collisions, one turn of the loop over get_limits: the next face
\* pair's plane is folded into the tables
GetLimit ==
    /\ cpc \in {"ready", "folding"}
    /\ Len(call.planes) < MaxPairs
    /\ \E plane \in AnyPlanes(shyness) :
          call' = [call EXCEPT !.planes = Append(@, plane),
                               !.lower = FoldPlane(TablesOf(call), plane).lower,
                               !.upper = FoldPlane(TablesOf(call), plane).upper]
    /\ cpc' = "folding"
    /\ UNCHANGED <<sheet, shyness, again, svars>>

SolverIdle ==
    /\ self = QSSolver(args.with_collisions, args.with_t1, args.with_t3)
    /\ eptm \in InitMeshes
    /\ pc = "idle"
    /\ pos0 = <<>>
    /\ run = 0
    /\ nEval = 0
    /\ ntopo = 0
    /\ res = [x |-> <<>>, run |-> 0]
    /\ err = NoExc
    /\ changed = FALSE
    /\ last = Step(Eval("init", <<>>, eptm, NoExc, FALSE, FALSE, <<>>, 0), 0)
    /\ written = NothingWritten

CollInit ==
    /\ args = [with_collisions |-> TRUE, with_t1 |-> FALSE, with_t3 |-> FALSE]
    /\ SolverIdle
    /\ eptm.active = {1, 2}
    /\ sheet = PrevLayout
    /\ shyness \in {RInt(k) : k \in 0..MaxShy}
    /\ cpc = "ready"
    /\ call = NoCall
    /\ again = NoAgain

CollNext == SheetUpdate

CollSpec == CollInit /\ [][CollNext]_vars

\* the wrapped update followed by a second call of its resolver
AgainNext == SheetUpdate \/ SolveAgain

AgainSpec == CollInit /\ [][AgainNext]_vars

\* the parts of CollidingBoxes, each on inputs of its own
BoxesNext ==
    \/ NewCollidingBoxes
    \/ CollisionPlane
    \/ GetLimit

BoxesSpec == CollInit /\ [][BoxesNext]_vars

\* =========================================================== the solver
\* ------------------------------------------------------------ actions
Init ==
    /\ args \in [with_collisions : BOOLEAN, with_t1 : BOOLEAN, with_t3 : BOOLEAN]
    /\ SolverIdle
    /\ sheet = PrevLayout
    /\ shyness = RInt(0)
    /\ cpc = "unused"
    /\ call = NoCall
    /\ again = NoAgain

\* find_energy_min up to the first optimize.minimize call of _minimize
FindEnergyMin ==
    /\ pc = "idle"
    /\ pc' = "optimizing"
    /\ pos0' = active_pos(eptm)
    /\ run' = 1
    /\ nEval' = 0
    /\ changed' = FALSE
    /\ last' = Step(Eval("start", <<>>, eptm, NoExc, FALSE, FALSE, <<>>, 0), 0)
    /\ UNCHANGED <<args, self, eptm, ntopo, res, err, written, cvars>>

\* the effect of one evaluation ev on the solver
Evaluated(ev) ==
    LET ctl == _minimize(ev, Control(pc, pos0, run, nEval, err))
    IN  /\ eptm' = ev.eptm
        /\ pc' = ctl.pc
        /\ pos0' = ctl.pos0
        /\ run' = ctl.run
        /\ nEval' = ctl.nEval
        /\ err' = ctl.err
        /\ ntopo' = ntopo + ev.topo
        /\ changed' = IF ctl.run # run THEN FALSE
                      ELSE changed \/ ev.eptm.active # eptm.active
        /\ last' = Step(ev, run)
        /\ written' = IF ev.wrote /\ ev.trace # <<>> THEN Written(ev.pos) ELSE written
        /\ UNCHANGED <<args, self, res, cvars>>

\* the optimizer asks for the energy of a trial vector
OptEnergy ==
    /\ pc = "optimizing"
    /\ nEval < MaxEvals
    /\ \E pos \in Trials(Len(pos0)), ch \in Choices(self) :
          Evaluated(_opt_energy(self, pos, eptm, ch))

\* the optimizer asks for the gradient at a trial vector
OptGrad ==
    /\ pc = "optimizing"
    /\ nEval < MaxEvals
    /\ \E pos \in Trials(Len(pos0)), ch \in Choices(self) :
          Evaluated(_opt_grad(self, pos, eptm, ch))

\* _opt_energy is called with a trial vector of any length
OptEnergyAny ==
    /\ pc = "optimizing"
    /\ nEval < MaxEvals
    /\ \E pos \in AnyTrials, ch \in AnyChoices(self) :
          Evaluated(_opt_energy(self, pos, eptm, ch))

\* the optimizer itself raises
OptimizerRaises ==
    /\ pc = "optimizing"
    /\ \E exc \in {"ValueError", "RuntimeError"} :
          Evaluated(Eval("minimize", <<>>, eptm, exc, FALSE, FALSE, <<>>, 0))

\* optimize.minimize returns its result and _minimize returns it
OptimizerReturns ==
    /\ pc = "optimizing"
    /\ nEval >= 1
    /\ pc' = "returned"
    /\ res' = [x |-> last.pos, run |-> run]
    /\ last' = Step(Eval("return", last.pos, eptm, NoExc, FALSE, FALSE, <<>>, 0), run)
    /\ UNCHANGED <<args, self, eptm, pos0, run, nEval, ntopo, err, changed, written, cvars>>

Next ==
    \/ FindEnergyMin
    \/ OptEnergy
    \/ OptGrad
    \/ OptimizerRaises
    \/ OptimizerReturns

Spec == Init /\ [][Next]_vars

\* the solver without topology operators, its energy function called with
\* trial vectors of any length
AnyInit == Init /\ ~args.with_t1 /\ ~args.with_t3

AnyNext ==
    \/ FindEnergyMin
    \/ OptEnergyAny
    \/ OptimizerReturns

AnySpec == AnyInit /\ [][AnyNext]_vars

\* optimize.minimize evaluates its start vector before anything else
FirstEval ==
    /\ nEval = 0
    /\ (OptEnergy \/ OptGrad \/ OptimizerRaises)

\* a run has started and not made its first evaluation: the states in which
\* <<FirstEval>>_vars is enabled
FirstEvalDue == pc = "optimizing" /\ nEval = 0

\* find_energy_min is called and every optimizer run terminates: it makes its
\* first evaluation and, unless interrupted, ends (after MaxEvals evaluations
\* at most); the topology operators act finitely often (MaxTopo).  The middle
\* condition is WF_vars(FirstEval) with its ENABLED written as FirstEvalDue.
LiveSpec ==
    /\ Init /\ [][Next]_vars
    /\ WF_vars(FindEnergyMin)
    /\ ([]<>(~FirstEvalDue) \/ []<><<FirstEval>>_vars)
    /\ WF_vars(OptimizerReturns)

\* =============================================================== claims
\* C1: whenever an evaluation raises the topology-change signal, find_energy_min
\* does not end with an error: the run is dropped and a fresh run is started
\* from the coordinate vector of the mesh's current active vertices.
C1_RestartFromCurrentActive ==
    last.exc = TopologyChangeError =>
        /\ pc = "optimizing"
        /\ err = NoExc
        /\ run = last.run + 1
        /\ nEval = 0
        /\ pos0 = active_pos(eptm)

C1_Witness ==
    /\ last.exc = TopologyChangeError
    /\ pc = "optimizing"
    /\ Len(pos0) # Len(last.pos)

\* C2: with T1 or T3 enabled, an energy or gradient evaluation whose trial
\* vector implies another vertex count than the mesh's active-vertex count
\* raises the topology-change signal, writes no position, calls neither
\* compute_energy nor compute_gradient and leaves the mesh as it was.
C2_MismatchRaisesBeforeWrite ==
    [][(/\ last'.op \in {"energy", "grad"}
        /\ self.rearange
        /\ Len(last'.pos) \div NDims # Cardinality(eptm.active))
       => (/\ last'.exc = TopologyChangeError
           /\ ~last'.wrote
           /\ ~last'.computed
           /\ last'.trace = <<>>
           /\ eptm' = eptm)]_svars

C2_Witness ==
    /\ last.op = "energy"
    /\ last.exc = TopologyChangeError
    /\ ~last.wrote
    /\ Len(last.pos) \div NDims # Cardinality(eptm.active)

\* C3 (as claimed): an optimizer run during which a topology operator changed
\* the active-vertex set never has its result returned by find_energy_min.
C3_ChangedRunNeverReturned ==
    pc = "returned" => ~changed

\* C4: an exception other than the topology-change signal, raised by the
\* mesh, the model or the optimizer during a run, ends find_energy_min with
\* that exception, and no further optimizer run is started.
C4_OtherErrorsPropagate ==
    (last.exc # NoExc /\ last.exc # TopologyChangeError) =>
        /\ pc = "failed"
        /\ err = last.exc
        /\ run = last.run

C4_Witness ==
    /\ last.exc = "ValueError"
    /\ last.op = "energy"
    /\ pc = "failed"
    /\ self.rearange

\* C5: one call of the composed position update runs the base write first,
\* then the collision correction, then T1, then T3; a wrapper that is not
\* enabled is not run, and the resolver runs only inside the collision stage.
C5_Stages(trace) ==
    SelectSeq(trace, LAMBDA x : x \in {"_set_pos", "self_intersections", "auto_t1", "auto_t3"})

Resolved == cpc = "done" /\ call.ran /\ call.ret = "None"

\* vertex v has a finite aggregated bound on axis c
Bounded(v, c) == IsFinite(call.lower[v][c]) \/ IsFinite(call.upper[v][c])

\* C6: after the bounds of all the colliding face pairs are aggregated,
\* every vertex with a finite bound on an axis has lower <= upper on that
\* axis, a vertex of a face that is in several colliding pairs included.
C6_LowerLeUpper ==
    (cpc = "done" /\ call.ran) =>
        \A v \in SheetVerts, c \in Coords :
            Bounded(v, c) => RLe(call.lower[v][c], call.upper[v][c])

\* C7: once a plane is found, every vertex with a finite bound on an axis
\* ends inside [lower, upper] on it: a coordinate above the upper bound is
\* set to it, one below the lower bound is set to it, one inside the bounds
\* keeps its value; also so for a vertex with both a lower and an upper
\* bound.  (Stated for the axes on which lower <= upper.)
C7_ClampedIntoBounds ==
    Resolved =>
        \A v \in SheetVerts, c \in Coords :
            (Bounded(v, c) /\ RLe(call.lower[v][c], call.upper[v][c])) =>
                LET lo == call.lower[v][c]
                    up == call.upper[v][c]
                    x == call.after_fun[v][c]
                IN  /\ RLe(lo, call.pos[v][c])
                    /\ RLe(call.pos[v][c], up)
                    /\ call.pos[v][c] = (IF RLt(up, x) THEN up ELSE IF RLt(x, lo) THEN lo ELSE x)

\* C8: when the detector reports no intersecting edge pair, the wrapped
\* update leaves the positions and the returned value as the unwrapped
\* update made them: the resolver is not run and the wrapper moves no vertex.
C8_NoPairsTransparent ==
    (cpc = "done" /\ Len(call.edge_pairs) = 0) =>
        /\ ~call.ran
        /\ call.pos = call.after_fun
        /\ sheet = call.after_fun
        /\ call.trace = <<"copy", "fun", "self_intersections", "update_all">>
        /\ call.res \in FunReturns

C8_Witness ==
    /\ cpc = "done"
    /\ Len(call.edge_pairs) = 0
    /\ ~call.ran
    /\ call.after_fun # call.position_buffer
    /\ sheet = call.after_fun
    /\ call.res = "res"

\* C9: when no colliding face pair yields a plane (every pair returns none,
\* or there is no face pair because every edge pair was a self pair), the
\* resolver changes no position and returns 0.
C9_NoPlaneNoChange ==
    (cpc = "done" /\ call.ran /\ \A i \in DOMAIN call.planes : ~call.planes[i].found) =>
        /\ call.ret = "0"
        /\ call.pos = call.after_fun
        /\ sheet = call.after_fun

C9_Witness ==
    /\ cpc = "done"
    /\ call.ran
    /\ Len(call.face_pairs) > 0
    /\ \A i \in DOMAIN call.planes : ~call.planes[i].found
    /\ call.ret = "0"
    /\ call.after_fun # call.position_buffer

\* the resolver moved vertex v
Corrected(v) == call.pos[v] # call.after_fun[v]

RAbs(a) == IF a[1] < 0 THEN <<-a[1], a[2]>> ELSE a

\* C10: after the resolver ran with margin s, for every face pair with a
\* plane and every two corrected vertices on opposite sides of it, their
\* separation along the collision axis is at least s and at most their
\* separation before the correction plus s.
C10_SeparationWithinMargin ==
    Resolved =>
        \A i \in DOMAIN call.planes : call.planes[i].found =>
            \A c \in call.planes[i].coll_ax :
            \A u \in call.planes[i].upper_index, w \in call.planes[i].lower_index :
                (Corrected(u) /\ Corrected(w)) =>
                    LET after == RSub(call.pos[w][c], call.pos[u][c])
                        before == RAbs(RSub(call.after_fun[w][c], call.after_fun[u][c]))
                    IN  /\ RLe(shyness, after)
                        /\ RLe(after, RAdd(before, shyness))

\* C11: a second run of the resolver, with the same margin, on the mesh the
\* first resolution left changes no vertex position and returns 0.
C11_SecondRunDoesNothing ==
    cpc = "again" =>
        /\ again.ret = "0"
        /\ again.pos = again.before

\* C12: find_energy_min eventually ends: the restart loop of _minimize makes
\* finitely many runs (at most one more than the topology changes), and what
\* it returns is the result of the last run, the one no topology-change
\* signal interrupted.  (A run ended by another exception ends the call with
\* that exception.)
C12_RestartLoopEnds ==
    /\ <>(pc \in {"returned", "failed"})
    /\ [](pc = "returned" =>
            /\ res.run = run
            /\ res.x = last.pos
            /\ last.exc = NoExc
            /\ run <= ntopo + 1)

C12_Witness ==
    /\ pc = "returned"
    /\ run >= 2
    /\ res.run = run
    /\ Len(res.x) = Len(pos0)

\* the trial vector pos does not match the active-vertex layout of mesh e
Mismatch(pos, e) ==
    \/ Len(pos) % NDims # 0
    \/ Len(pos) \div NDims # Cardinality(e.active)

\* C13: with T1 and T3 disabled, an energy evaluation whose trial vector does
\* not match the active-vertex layout (length no multiple of the number of
\* coordinates, or another vertex count) ends in an error that reaches the
\* caller; the vector is not truncated, broadcast or reshaped to fit (the
\* mesh is left as it was) and no restart is made.
C13_MismatchIsError ==
    [][(last'.op = "energy" /\ ~self.rearange /\ Mismatch(last'.pos, eptm)) =>
          /\ last'.exc \notin {NoExc, TopologyChangeError}
          /\ eptm' = eptm
          /\ pc' = "failed"
          /\ err' = last'.exc
          /\ run' = run]_svars

\* the mesh after the first k stages of self.set_pos, called on the current
\* mesh (k = 0: the mesh before the call)
MeshAfter(k, pos, ch) ==
    IF k = 0 THEN eptm ELSE set_pos(self.set_pos, k, eptm, pos, ch).eptm

TopologyOperators == {"auto_t1", "auto_t3"}

\* C14: the set of active vertices is left as it is by every operation of the
\* solver itself (_set_pos, _opt_energy and _opt_grad apart from the T1/T3
\* operators, _minimize) and by the collision resolver; only the topology
\* operators change it.  Stage by stage of a position update, and step by step
\* of find_energy_min.
C14_OnlyTopologyChangesActive ==
    /\ [](pc = "optimizing" =>
            \A pos \in Trials(Len(pos0)), ch \in Choices(self) :
                \A k \in 1..Len(self.set_pos) :
                    self.set_pos[k] \notin TopologyOperators =>
                        MeshAfter(k, pos, ch).active = MeshAfter(k - 1, pos, ch).active)
    /\ [][eptm'.active # eptm.active =>
            /\ last'.op = "energy"
            /\ ntopo' > ntopo
            /\ \E i \in 1..Len(last'.trace) : last'.trace[i] \in TopologyOperators]_svars

C14_Witness ==
    /\ last.op = "energy"
    /\ last.wrote
    /\ \E i \in 1..Len(last.trace) : last.trace[i] = "solve_collisions"
    /\ Cardinality(eptm.active) * NDims # Len(last.pos)

\* C15: while solve_collisions folds in the face pairs one after the other,
\* for every vertex and axis the aggregated lower bound never decreases and
\* the aggregated upper bound never increases; the final bounds are at least
\* as tight as those held after any prefix of the face pairs.
C15_BoundsMonotone ==
    cpc = "folding" =>
        \A v \in SheetVerts, c \in Coords :
            /\ \A k \in 1..Len(call.planes) :
                /\ RLe(Aggregate(call.planes, k - 1).lower[v][c],
                       Aggregate(call.planes, k).lower[v][c])
                /\ RLe(Aggregate(call.planes, k).upper[v][c],
                       Aggregate(call.planes, k - 1).upper[v][c])
            /\ \A k \in 0..Len(call.planes) :
                /\ RLe(Aggregate(call.planes, k).lower[v][c], call.lower[v][c])
                /\ RLe(call.upper[v][c], Aggregate(call.planes, k).upper[v][c])

\* a second face pair yields a looser bound than the first one set, and the
\* first one is kept
C15_Witness ==
    /\ cpc = "folding"
    /\ Len(call.planes) = 2
    /\ \E v \in SheetVerts, c \in Coords :
          /\ v \in call.planes[2].lower_index
          /\ c \in call.planes[2].coll_ax
          /\ RLt(call.planes[2].lower[c], call.lower[v][c])
          /\ call.lower[v][c] = Aggregate(call.planes, 1).lower[v][c]

\* the two faces owning the edges of pair number i
OwningFaces(edge_pairs, i) == {EdgeFace[edge_pairs[i][1]], EdgeFace[edge_pairs[i][2]]}

\* C16: _get_intersecting_faces maps every intersecting edge pair to the pair
\* of faces owning its two edges and returns each unordered pair of two
\* distinct faces exactly once, whatever the order of the edges in a pair and
\* however many edge pairs map to it; an edge pair whose two edges belong to
\* one face contributes no face pair.
C16_FacePairsOnce ==
    cpc = "built" =>
        /\ \A i \in DOMAIN call.edge_pairs :
              Cardinality(OwningFaces(call.edge_pairs, i)) = 2 =>
                  Cardinality({k \in DOMAIN call.face_pairs :
                      {call.face_pairs[k][1], call.face_pairs[k][2]}
                          = OwningFaces(call.edge_pairs, i)}) = 1
        /\ \A k \in DOMAIN call.face_pairs :
              /\ call.face_pairs[k][1] # call.face_pairs[k][2]
              /\ \E i \in DOMAIN call.edge_pairs :
                    OwningFaces(call.edge_pairs, i)
                        = {call.face_pairs[k][1], call.face_pairs[k][2]}

\* two edge pairs, their edges in opposite orders, for one face pair
C16_Witness ==
    /\ cpc = "built"
    /\ Len(call.face_pairs) = 1
    /\ \E i, j \in DOMAIN call.edge_pairs :
          /\ i # j
          /\ EdgeFace[call.edge_pairs[i][1]] = EdgeFace[call.edge_pairs[j][2]]
          /\ EdgeFace[call.edge_pairs[i][2]] = EdgeFace[call.edge_pairs[j][1]]
          /\ EdgeFace[call.edge_pairs[i][1]] # EdgeFace[call.edge_pairs[i][2]]

\* C17: in every call of the collision-wrapped position update the snapshot
\* is the positions of before the wrapped update, which does not alter it;
\* then the wrapped update runs; then the detector runs, on the updated mesh;
\* the resolver, when there are intersections, is given that snapshot as the
\* previous state; update_all is the last step, after any position the
\* resolver wrote.
C17_WrapperOrder ==
    [][(cpc = "ready" /\ cpc' = "done") =>
          /\ call'.position_buffer = sheet
          /\ SubSeq(call'.trace, 1, 3) = <<"copy", "fun", "self_intersections">>
          /\ call'.trace[Len(call'.trace)] = "update_all"
          /\ \A i \in DOMAIN call'.edge_pairs :
                Meets(call'.after_fun, EdgeFace[call'.edge_pairs[i][1]],
                                       EdgeFace[call'.edge_pairs[i][2]])
          /\ call'.ran = (Len(call'.edge_pairs) # 0)
          /\ call'.ran =>
                /\ call'.trace = <<"copy", "fun", "self_intersections",
                                   "solve_collisions", "update_all">>
                /\ call'.planes = Planes(call'.after_fun, sheet, call'.face_pairs,
                                         shyness, Len(call'.face_pairs))
          /\ ~call'.ran =>
                /\ call'.trace = <<"copy", "fun", "self_intersections", "update_all">>
                /\ call'.pos = call'.after_fun
          /\ sheet' = call'.pos]_cvars

\* the update moved the sheet, and the resolver, with the snapshot, found a
\* plane and moved a vertex
C17_Witness ==
    /\ cpc = "done"
    /\ call.ran
    /\ call.ret = "None"
    /\ call.position_buffer # call.after_fun
    /\ call.pos # call.after_fun
    /\ sheet = call.pos

\* a and b are of opposite strict signs
SignChange(a, b) ==
    \/ RLt(a, RInt(0)) /\ RLt(RInt(0), b)
    \/ RLt(RInt(0), a) /\ RLt(b, RInt(0))

\* the axes on which the low endpoint of face g and the high endpoint of
\* face f have changed sides between the snapshot and the sheet of the call
Crossed(f, g) ==
    {c \in Coords :
        SignChange(RSub(_face_bbox(call.after_fun, g)[c].l, _face_bbox(call.after_fun, f)[c].h),
                   RSub(_face_bbox(call.position_buffer, g)[c].l,
                        _face_bbox(call.position_buffer, f)[c].h))}

\* plane p bounds the vertices of face lo from below and those of face hi
\* from above, shy / 2 off its coordinate, on the axes ax and on no other
BoundsAt(p, lo, hi, ax, shy) ==
    /\ p.found
    /\ p.lower_index = FaceSrce(lo)
    /\ p.upper_index = FaceSrce(hi)
    /\ p.coll_ax = ax
    /\ \A c \in Coords :
          IF c \in ax
          THEN /\ IsFinite(p.plane_coords[c])
               /\ p.lower[c] = RAdd(p.plane_coords[c], RHalf(shy))
               /\ p.upper[c] = RSub(p.plane_coords[c], RHalf(shy))
          ELSE /\ p.lower[c] = NInf
               /\ p.upper[c] = PInf

\* C18: in _collision_plane, when the low endpoint of face 1 and the high
\* endpoint of face 0 have changed sides on some axis, every source vertex of
\* face 1 gets the lower bound plane + shyness/2 and every source vertex of
\* face 0 the upper bound plane - shyness/2, on those axes only; in the mirror
\* case the two faces exchange their roles; when both conditions hold the
\* first case is the one applied.
C18_PlaneRoles ==
    cpc = "plane" =>
        LET f0 == call.face_pairs[1][1]
            f1 == call.face_pairs[1][2]
        IN  /\ Crossed(f0, f1) # {} =>
                  BoundsAt(call.planes[1], f1, f0, Crossed(f0, f1), shyness)
            /\ (Crossed(f0, f1) = {} /\ Crossed(f1, f0) # {}) =>
                  BoundsAt(call.planes[1], f0, f1, Crossed(f1, f0), shyness)

\* both conditions hold, on different axes, and the first case is applied
C18_Witness ==
    /\ cpc = "plane"
    /\ Crossed(call.face_pairs[1][1], call.face_pairs[1][2]) # {}
    /\ Crossed(call.face_pairs[1][2], call.face_pairs[1][1]) # {}
    /\ Crossed(call.face_pairs[1][1], call.face_pairs[1][2])
           # Crossed(call.face_pairs[1][2], call.face_pairs[1][1])
    /\ BoundsAt(call.planes[1], call.face_pairs[1][2], call.face_pairs[1][1],
                Crossed(call.face_pairs[1][1], call.face_pairs[1][2]), shyness)
    /\ shyness # RInt(0)

\* the sequence planes without its k-th element
Without(planes, k) ==
    [i \in 1..(Len(planes) - 1) |-> planes[IF i < k THEN i ELSE i + 1]]

\* the correction rows of vertex v: its position raised to its lower bounds,
\* lowered to its upper bounds
LowerRow(v) == PerCoord([c \in Coords |-> RMax(call.after_fun[v][c], call.lower[v][c])])
UpperRow(v) == PerCoord([c \in Coords |-> RMin(call.after_fun[v][c], call.upper[v][c])])

\* C19: a colliding face pair without a sign change on any axis gets no plane
\* and raises no error (the call ends); the pair contributes no bound to any
\* vertex, and the bounds of the other face pairs of the call are aggregated
\* all the same, and applied: a vertex they bound is moved to a correction row.
C19_NoPlaneSkipped ==
    (cpc = "done" /\ call.ran) =>
        \A k \in DOMAIN call.planes :
            (/\ Crossed(call.face_pairs[k][1], call.face_pairs[k][2]) = {}
             /\ Crossed(call.face_pairs[k][2], call.face_pairs[k][1]) = {}) =>
                /\ ~call.planes[k].found
                /\ Aggregate(call.planes, k) = Aggregate(call.planes, k - 1)
                /\ LET others == Without(call.planes, k)
                       t == Aggregate(others, Len(others))
                   IN  /\ call.lower = t.lower
                       /\ call.upper = t.upper
                       /\ call.ret = IF t.plane_found THEN "None" ELSE "0"
                       /\ t.plane_found =>
                            \A v \in SheetVerts :
                               /\ (\E c \in Coords : IsFinite(t.lower[v][c])
                                                  \/ IsFinite(t.upper[v][c]))
                                    => call.pos[v] \in
                                         ({LowerRow(v) : x \in {c \in Coords : IsFinite(t.lower[v][c])}}
                                          \cup
                                          {UpperRow(v) : x \in {c \in Coords : IsFinite(t.upper[v][c])}})
                               /\ (\A c \in Coords : ~IsFinite(t.lower[v][c])
                                                  /\ ~IsFinite(t.upper[v][c]))
                                    => call.pos[v] = call.after_fun[v]

\* the first face pair has no plane, the second has one, and its bounds move
\* a vertex
C19_Witness ==
    /\ cpc = "done"
    /\ call.ran
    /\ Len(call.planes) = 2
    /\ ~call.planes[1].found
    /\ call.planes[2].found
    /\ call.ret = "None"
    /\ call.pos # call.after_fun

\* C20: solve_collisions leaves as it was every coordinate without a finite
\* bound: the position of a vertex with no finite bound on any axis, and, of
\* a vertex bounded on some axes, its coordinates on the other axes.
C20_UnboundedUnchanged ==
    (cpc = "done" /\ call.ran) =>
        \A v \in SheetVerts, c \in Coords :
            (~IsFinite(call.lower[v][c]) /\ ~IsFinite(call.upper[v][c])) =>
                call.pos[v][c] = call.after_fun[v][c]

\* a vertex is moved along one axis, the update had moved it along the other
\* one, on which it has no bound, and another moved vertex has no bound at all
C20_Witness ==
    /\ cpc = "done"
    /\ call.ran
    /\ call.ret = "None"
    /\ \E v \in SheetVerts, c, d \in Coords :
          /\ call.pos[v][c] # call.after_fun[v][c]
          /\ ~IsFinite(call.lower[v][d]) /\ ~IsFinite(call.upper[v][d])
          /\ call.after_fun[v][d] # call.position_buffer[v][d]
          /\ call.pos[v][d] = call.after_fun[v][d]
    /\ \E w \in SheetVerts :
          /\ \A c \in Coords : ~IsFinite(call.lower[w][c]) /\ ~IsFinite(call.upper[w][c])
          /\ call.after_fun[w] # call.position_buffer[w]
          /\ call.pos[w] = call.after_fun[w]

\* C21 (as claimed): whenever _opt_grad(pos) calls compute_gradient, the most
\* recent position update on the mesh was made with that same pos, in whatever
\* order the optimizer makes its energy and gradient calls.
C21_GradAfterWriteOfSamePos ==
    (last.op = "grad" /\ last.computed) =>
        /\ written.done
        /\ written.pos = last.pos

\* the run in progress started with another active-vertex count than the
\* mesh has now
CountChanged == pc = "optimizing" /\ Len(pos0) # Cardinality(eptm.active) * NDims

\* C22: a change of the active-vertex count made by the T1/T3 operators
\* inside the position update of an _opt_energy call is not signalled by that
\* call, which still calls compute_energy and, unless the model raises,
\* returns to the optimizer within the same run; the signal is raised by the
\* next _opt_energy or _opt_grad call of the run, which carries a trial
\* vector of the old length; a run that makes no further evaluation has its
\* result returned without a restart.
C22_SignalAtNextEvaluation ==
    [][/\ (/\ last'.op = "energy"
           /\ last'.wrote
           /\ Cardinality(eptm'.active) # Cardinality(eptm.active))
          => /\ last'.exc # TopologyChangeError
             /\ last'.computed
             /\ run' = run
             /\ last'.exc = NoExc => (pc' = "optimizing" /\ nEval' = nEval + 1)
       /\ (CountChanged /\ last'.op \in {"energy", "grad"})
          => /\ last'.exc = TopologyChangeError
             /\ Len(last'.pos) = Len(pos0)
             /\ run' = run + 1
             /\ ~CountChanged'
       /\ (CountChanged /\ pc' = "returned")
          => /\ run' = run
             /\ res' = [x |-> last.pos, run |-> run]
             /\ eptm' = eptm]_svars

\* the last evaluation of a run changed the vertex count, and the run's
\* result, of the old length, is returned
C22_Witness ==
    /\ pc = "returned"
    /\ res.run = run
    /\ Len(res.x) # Cardinality(eptm.active) * NDims
    /\ last.op = "return"
====
